---- MODULE Spec2Model ----
(***************************************************************************)
(* The three programs of the repository, each a separate package main:     *)
(*   "auth" : signup / login / JWT middleware / owner-scoped notes          *)
(*            over SQLite (src/unnamed/part_001)                            *)
(*   "db"   : notes CRUD over SQLite, no users (src/db_intg_basic/main.go)  *)
(*   "mem"  : notes in a map guarded by one mutex (src/unnamed/part_000)    *)
(* A behaviour runs one of them; prog is chosen in Init and never changes.  *)
(***************************************************************************)
EXTENDS Integers, Sequences, FiniteSets, TLC

VARIABLES
    prog,        \* which package main is running
    \* ---- auth program
    clock,       \* time.Now().Unix()
    ticks,       \* number of clock advances so far (bounds the run)
    users,       \* table users(id, username UNIQUE, password_hash)
    userSeq,     \* sqlite_sequence of users (AUTOINCREMENT)
    notes,       \* table notes(id, title, content, user_id)
    noteSeq,     \* sqlite_sequence of notes
    issued,      \* tokens login has returned to clients
    signedUp,    \* history: [username, password, id] of every successful signup
    noteAuthor,  \* history: note id -> user id of the token that created it
    resp,        \* the response to the request just served
    \* ---- db program
    dbNotes,     \* table notes(id, title, content)
    dbSeq,       \* sqlite_sequence of notes
    dbCreator,   \* history: id -> the client whose create was given that id
    dbDeleted,   \* history: ids a DELETE has removed
    dbResp,      \* the response to the request just served
    \* ---- mem program
    memNotes,    \* var notes = make(map[int]Note)
    mu,          \* var mu sync.Mutex: 0 when free, else the goroutine holding it
    pc,          \* each goroutine's position in its handler
    local,       \* each goroutine's handler locals
    memResp,     \* each goroutine's response, once written
    memDeleted   \* history: ids deleted and not assigned again since

authVars == <<clock, ticks, users, userSeq, notes, noteSeq, issued, signedUp,
               noteAuthor, resp>>
dbVars   == <<dbNotes, dbSeq, dbCreator, dbDeleted, dbResp>>
memVars  == <<memNotes, mu, pc, local, memResp, memDeleted>>
vars     == <<prog, authVars, dbVars, memVars>>

----------------------------------------------------------------------------
(* Bounds of the model *)
MaxUsers  == 2      \* rows the users table may hold
MaxNotes  == 2      \* rows a notes table may hold
MaxIssued == 1      \* tokens clients hold at a time
MaxTicks  == 1      \* clock advances in a run
MaxProcs  == 2      \* concurrent request goroutines of the mem program
MaxRandId == 2      \* rand.IntN draws from 0..MaxRandId-1 in the model
MaxSalt   == 1      \* salts bcrypt may draw

(* Program constants *)
TTL                   == 3600     \* 1 * time.Hour, in seconds
MaxPasswordBytes      == 72       \* bcrypt refuses longer passwords
StatusOK              == 200
StatusCreated         == 201
StatusNoContent       == 204
StatusBadRequest      == 400
StatusUnauthorized    == 401
StatusNotFound        == 404
StatusInternalServerError == 500

jwtKey   == "my_secret_key"
OtherKey == "not_the_server_key"

----------------------------------------------------------------------------
(* Decimal text, as fmt.Sprint, strconv.Atoi and SQLite's column affinity   *)
(* produce and read it. A string is a sequence of one-character strings.    *)
Digit == <<"0", "1", "2", "3", "4", "5", "6", "7", "8", "9">>

IsDigit(c) == \E d \in 1..10 : Digit[d] = c

DigitVal(c) == (CHOOSE d \in 1..10 : Digit[d] = c) - 1

RECURSIVE Sprint(_)
Sprint(n) ==
    IF n < 10 THEN <<Digit[n + 1]>>
    ELSE Sprint(n \div 10) \o <<Digit[(n % 10) + 1]>>

RECURSIVE DigitsVal(_)
DigitsVal(s) ==
    IF Len(s) = 0 THEN 0
    ELSE DigitsVal(SubSeq(s, 1, Len(s) - 1)) * 10 + DigitVal(s[Len(s)])

\* strconv.Atoi: (value, nil) for decimal digits, (0, err) otherwise
Atoi(s) ==
    IF Len(s) > 0 /\ \A i \in 1..Len(s) : IsDigit(s[i])
    THEN [ok |-> TRUE, val |-> DigitsVal(s)]
    ELSE [ok |-> FALSE, val |-> 0]

\* A text bound to an INTEGER column: stored as an integer when it reads as
\* one, kept as text otherwise (SQLite type affinity). The two storage
\* classes never compare equal.
SqlInteger(s) ==
    IF Atoi(s).ok THEN [int |-> Atoi(s).val] ELSE [text |-> s]

----------------------------------------------------------------------------
(* Request bodies. json.NewDecoder(r.Body).Decode(&v) fills v from a        *)
(* well-formed body and returns an error, leaving v zero, otherwise.        *)
Usernames == {"alice", "bob"}
Pw1       == <<"p", "w", "1">>
Pw2       == <<"p", "w", "2">>
LongPw    == [i \in 1..(MaxPasswordBytes + 1) |-> "x"]
Passwords == {Pw1, Pw2}
Salts     == 1..MaxSalt

ZeroUser == [ID |-> 0, Username |-> "", Password |-> <<>>]

UserBody(u, p) == [ok |-> TRUE, val |-> [ID |-> 0, Username |-> u, Password |-> p]]

BadBody == [ok |-> FALSE, val |-> ZeroUser]

SignupBodies ==
    {BadBody, UserBody("alice", Pw1), UserBody("alice", Pw2), UserBody("bob", Pw1),
     UserBody("bob", LongPw)}

LoginBodies ==
    {BadBody} \cup {UserBody(u, p) : u \in Usernames, p \in Passwords}

ZeroNote == [ID |-> 0, Title |-> "", Content |-> "", UserID |-> 0]

\* the client may name any user_id in the body
NoteBodies ==
    {[ok |-> FALSE, val |-> ZeroNote],
     [ok |-> TRUE, val |-> [ID |-> 0, Title |-> "t1", Content |-> "c1", UserID |-> 2]]}

Decode(body) == [err |-> ~body.ok, val |-> body.val]

----------------------------------------------------------------------------
(* golang.org/x/crypto/bcrypt. The digest is a term over the salt and the   *)
(* password: equal only for the same salt and password, never the password. *)
Digest(salt, pw) == <<"bcrypt", salt, pw>>

NoHash == [salt |-> 0, digest |-> <<>>]

GenerateFromPassword(pw, salt) ==
    IF Len(pw) > MaxPasswordBytes
    THEN [err |-> TRUE, hash |-> NoHash]
    ELSE [err |-> FALSE, hash |-> [salt |-> salt, digest |-> Digest(salt, pw)]]

\* TRUE when the comparison returns an error
CompareHashAndPassword(hash, pw) == hash.digest # Digest(hash.salt, pw)

----------------------------------------------------------------------------
(* github.com/dgrijalva/jwt-go. A token string is empty, not a JWT at all,  *)
(* or header.payload.signature; the HS256 signature is a term over the      *)
(* signed text and the key.                                                 *)
HMAC(alg, uid, exp, key) == <<alg, uid, exp, key>>

NoToken   == [form |-> "empty", alg |-> "", uid |-> 0, exp |-> 0, sig |-> <<>>]
Malformed == [form |-> "malformed", alg |-> "", uid |-> 0, exp |-> 0, sig |-> <<>>]

\* jwt.NewWithClaims(jwt.SigningMethodHS256, claims).SignedString(key)
SignedString(claims, key) ==
    [form |-> "jwt", alg |-> "HS256", uid |-> claims.UserId, exp |-> claims.ExpiresAt,
     sig |-> HMAC("HS256", claims.UserId, claims.ExpiresAt, key)]

\* an unsigned token, alg "none"
Unsigned(claims) ==
    [form |-> "jwt", alg |-> "none", uid |-> claims.UserId, exp |-> claims.ExpiresAt,
     sig |-> <<>>]

\* StandardClaims.Valid: exp is checked only when set; now <= exp passes
ClaimsValid(tok, now) == tok.exp = 0 \/ now <= tok.exp

\* SigningMethodHMAC.Verify; "none" is refused unless the key allows it
SignatureValid(tok, key) ==
    /\ tok.alg = "HS256"
    /\ tok.sig = HMAC(tok.alg, tok.uid, tok.exp, key)

\* jwt.ParseWithClaims(tokenStr, claims, keyFunc): the claims are decoded
\* from the payload before anything is verified
ParseWithClaims(tok, key, now) ==
    IF tok.form # "jwt"
    THEN [err |-> TRUE, valid |-> FALSE, claims |-> [UserId |-> 0, ExpiresAt |-> 0]]
    ELSE LET good == ClaimsValid(tok, now) /\ SignatureValid(tok, key)
         IN  [err |-> ~good, valid |-> good,
              claims |-> [UserId |-> tok.uid, ExpiresAt |-> tok.exp]]

----------------------------------------------------------------------------
(* The auth program                                                         *)

NoResp == [op |-> "none", status |-> 0, msg |-> "", ran |-> FALSE]

\* http.Error(w, msg, status) from a handler or from the middleware
Error(op, req, msg, status, ran) ==
    [op |-> op, req |-> req, status |-> status, msg |-> msg, ran |-> ran]

UserByName(name) == {u \in users : u.username = name}

\* INSERT INTO users (username, password_hash): fails on UNIQUE(username);
\* without the constraint it would never fail
InsertUserNeverFails(username) == FALSE

InsertUserFails(username) == UserByName(username) # {}

\* what signupHandler answers whenever the INSERT returns an error
InsertUserError == [status |-> StatusInternalServerError, msg |-> "Error creating user"]

\* the password_hash argument of the INSERT: string(hashedPassword), and
\* what it would be if the password itself were passed
StoredPlain(user, h) == [salt |-> h.hash.salt, digest |-> user.Password]

StoredHash(user, h) == h.hash

signupHandler(body, salt) ==
    LET user == Decode(body).val
        h    == GenerateFromPassword(user.Password, salt)
        id   == userSeq + 1
    IN  IF h.err
        THEN /\ resp' = Error("signup", body, "Error hashing password",
                              StatusInternalServerError, TRUE)
             /\ UNCHANGED <<users, userSeq, signedUp>>
        ELSE IF InsertUserFails(user.Username)
        THEN /\ resp' = Error("signup", body, InsertUserError.msg,
                              InsertUserError.status, TRUE)
             /\ UNCHANGED <<users, userSeq, signedUp>>
        ELSE /\ Cardinality(users) < MaxUsers
             /\ users' = users \cup
                    {[id |-> id, username |-> user.Username,
                      password_hash |-> StoredHash(user, h)]}
             /\ userSeq' = id
             /\ signedUp' = signedUp \cup
                    {[username |-> user.Username, password |-> user.Password, id |-> id]}
             /\ resp' = [op |-> "signup", req |-> body, status |-> StatusCreated,
                         msg |-> "User created successfully", ran |-> TRUE]

Signup ==
    /\ prog = "auth"
    /\ \E body \in SignupBodies, salt \in Salts : signupHandler(body, salt)
    /\ UNCHANGED <<prog, clock, ticks, notes, noteSeq, issued, noteAuthor, dbVars, memVars>>

\* expirationTime := time.Now().Add(1 * time.Hour)
ExpirationTimeNoTTL(now) == now

ExpirationTime(now) == now + TTL

\* claims := &Claims{UserId: dbUser.ID, StandardClaims{ExpiresAt: expirationTime.Unix()}}
LoginClaimsZeroId(dbUser, now) == [UserId |-> 0, ExpiresAt |-> ExpirationTime(now)]

LoginClaims(dbUser, now) == [UserId |-> dbUser.id, ExpiresAt |-> ExpirationTime(now)]

\* clients keep at most MaxIssued tokens, which ones is up to them
Holding(toks) ==
    {h \in SUBSET toks : Cardinality(h) = IF Cardinality(toks) < MaxIssued
                                           THEN Cardinality(toks) ELSE MaxIssued}

loginHandler(body) ==
    LET creds == Decode(body).val
        rows  == UserByName(creds.Username)
    IN  IF rows = {}
        THEN /\ resp' = Error("login", body, "Invalid Username", StatusUnauthorized, TRUE)
             /\ UNCHANGED issued
        ELSE LET dbUser == CHOOSE u \in rows : TRUE IN
             IF CompareHashAndPassword(dbUser.password_hash, creds.Password)
             THEN /\ resp' = Error("login", body, "Invalid password",
                                   StatusUnauthorized, TRUE)
                  /\ UNCHANGED issued
             ELSE LET claims == LoginClaims(dbUser, clock)
                      tokenString == SignedString(claims, jwtKey)
                  IN  /\ issued' \in Holding(issued \cup {tokenString})
                      /\ resp' = [op |-> "login", req |-> body, status |-> StatusOK,
                                  msg |-> "", ran |-> TRUE, token |-> tokenString]

Login ==
    /\ prog = "auth"
    /\ \E body \in LoginBodies : loginHandler(body)
    /\ UNCHANGED <<prog, clock, ticks, users, userSeq, notes, noteSeq, signedUp,
                   noteAuthor, dbVars, memVars>>

\* What a client may put in the Authorization header: nothing, junk, a token
\* login gave out, such a token with its payload edited, or a token made
\* without the server's key.
Edited(tok) ==
    {[tok EXCEPT !.uid = u] : u \in (1..MaxUsers) \ {tok.uid}}
      \cup {[tok EXCEPT !.exp = tok.exp + TTL]}

Forged ==
    {SignedString([UserId |-> u, ExpiresAt |-> clock + TTL], OtherKey) : u \in 1..MaxUsers}
      \cup {Unsigned([UserId |-> 1, ExpiresAt |-> clock + TTL])}

AuthorizationValues ==
    {NoToken, Malformed} \cup issued \cup UNION {Edited(t) : t \in issued} \cup Forged

\* the client's own "userId" header, if it sends one
ClientUserIds == {<<>>, Sprint(1)}

NoBody == [ok |-> FALSE, val |-> ZeroNote]

\* a client that sends its own userId header is one that holds a token
Headers ==
    {h \in [Authorization : AuthorizationValues, userId : ClientUserIds] :
        h.userId = <<>> \/ h.Authorization \in issued}

PostRequests == {[header |-> h, body |-> b] : h \in Headers, b \in NoteBodies}

GetRequests == {[header |-> h, body |-> NoBody] : h \in Headers}

\* the two slips the gate must not have: no return after "Invalid Token",
\* and a token parsed without its signature being verified
authMiddlewareNoReturn(r) ==
    LET tokenStr == r.header.Authorization IN
    IF tokenStr = NoToken
    THEN [next |-> FALSE, r |-> r, msg |-> "Missing Token", status |-> StatusUnauthorized]
    ELSE LET parsed == ParseWithClaims(tokenStr, jwtKey, clock) IN
         [next |-> TRUE,
          r |-> [r EXCEPT !.header.userId = Sprint(parsed.claims.UserId)],
          msg |-> "", status |-> 0]

authMiddlewareUnverified(r) ==
    LET tokenStr == r.header.Authorization IN
    IF tokenStr = NoToken
    THEN [next |-> FALSE, r |-> r, msg |-> "Missing Token", status |-> StatusUnauthorized]
    ELSE LET parsed == ParseWithClaims(tokenStr, jwtKey, clock) IN
         IF tokenStr.form # "jwt" \/ ~ClaimsValid(tokenStr, clock)
         THEN [next |-> FALSE, r |-> r, msg |-> "Invalid Token",
               status |-> StatusUnauthorized]
         ELSE [next |-> TRUE,
               r |-> [r EXCEPT !.header.userId = Sprint(parsed.claims.UserId)],
               msg |-> "", status |-> 0]

\* r.Header.Add in place of r.Header.Set: a userId value the client sent stays
\* first and is the one r.Header.Get returns
authMiddlewareAdd(r) ==
    LET tokenStr == r.header.Authorization IN
    IF tokenStr = NoToken
    THEN [next |-> FALSE, r |-> r, msg |-> "Missing Token", status |-> StatusUnauthorized]
    ELSE LET parsed == ParseWithClaims(tokenStr, jwtKey, clock) IN
         IF parsed.err \/ ~parsed.valid
         THEN [next |-> FALSE, r |-> r, msg |-> "Invalid Token",
               status |-> StatusUnauthorized]
         ELSE [next |-> TRUE,
               r |-> IF r.header.userId # <<>> THEN r
                     ELSE [r EXCEPT !.header.userId = Sprint(parsed.claims.UserId)],
               msg |-> "", status |-> 0]

\* authMiddleware(next): the response when the request is turned away, or
\* the request as next.ServeHTTP receives it
authMiddleware(r) ==
    LET tokenStr == r.header.Authorization IN
    IF tokenStr = NoToken
    THEN [next |-> FALSE, r |-> r, msg |-> "Missing Token", status |-> StatusUnauthorized]
    ELSE LET parsed == ParseWithClaims(tokenStr, jwtKey, clock) IN
         IF parsed.err \/ ~parsed.valid
         THEN [next |-> FALSE, r |-> r, msg |-> "Invalid Token",
               status |-> StatusUnauthorized]
         ELSE [next |-> TRUE,
               r |-> [r EXCEPT !.header.userId = Sprint(parsed.claims.UserId)],
               msg |-> "", status |-> 0]

\* the handler as it would be if the owner came from the decoded body
createNoteHandlerBodyOwner(r0, r) ==
    LET note == Decode(r.body).val
        id   == noteSeq + 1
    IN  /\ Cardinality(notes) < MaxNotes
        /\ notes' = notes \cup
              {[id |-> id, title |-> note.Title, content |-> note.Content,
                user_id |-> [int |-> note.UserID]]}
        /\ noteSeq' = id
        /\ resp' = [op |-> "createNote", req |-> r0, status |-> StatusCreated,
                    msg |-> "Note created", ran |-> TRUE, userId |-> r.header.userId]

createNoteHandler(r0, r) ==
    LET note   == Decode(r.body).val
        userId == r.header.userId
        id     == noteSeq + 1
    IN  /\ Cardinality(notes) < MaxNotes
        /\ notes' = notes \cup
              {[id |-> id, title |-> note.Title, content |-> note.Content,
                user_id |-> SqlInteger(userId)]}
        /\ noteSeq' = id
        /\ resp' = [op |-> "createNote", req |-> r0, status |-> StatusCreated,
                    msg |-> "Note created", ran |-> TRUE, userId |-> userId]

\* rows.Scan into a Note: an INTEGER user_id reads as that int
ScanNote(row) ==
    [ID |-> row.id, Title |-> row.title, Content |-> row.content,
     UserID |-> IF "int" \in DOMAIN row.user_id THEN row.user_id.int ELSE 0]

\* SELECT id, title, content, user_id FROM notes WHERE user_id = ?
SelectAllNotes(userId) == notes

SelectNotesByUser(userId) == {n \in notes : n.user_id = SqlInteger(userId)}

getNotesHandler(r0, r) ==
    LET userId == r.header.userId
        rows   == SelectNotesByUser(userId)
    IN  /\ resp' = [op |-> "getNotes", req |-> r0, status |-> StatusOK, msg |-> "",
                    ran |-> TRUE, userId |-> userId,
                    notes |-> {ScanNote(n) : n \in rows}]
        /\ UNCHANGED <<notes, noteSeq>>

\* r.Handle("/notes", authMiddleware(http.HandlerFunc(createNoteHandler))).Methods("POST")
PostNotes ==
    /\ prog = "auth"
    /\ \E r \in PostRequests :
          LET gate == authMiddleware(r) IN
          IF gate.next
          THEN /\ createNoteHandler(r, gate.r)
               /\ noteAuthor' = (noteSeq' :> r.header.Authorization.uid) @@ noteAuthor
          ELSE /\ resp' = Error("createNote", r, gate.msg, gate.status, FALSE)
               /\ UNCHANGED <<notes, noteSeq, noteAuthor>>
    /\ UNCHANGED <<prog, clock, ticks, users, userSeq, issued, signedUp, dbVars, memVars>>

\* r.Handle("/notes", authMiddleware(http.HandlerFunc(getNotesHandler))).Methods("GET")
GetNotes ==
    /\ prog = "auth"
    /\ \E r \in GetRequests :
          LET gate == authMiddleware(r) IN
          IF gate.next
          THEN getNotesHandler(r, gate.r)
          ELSE /\ resp' = Error("getNotes", r, gate.msg, gate.status, FALSE)
               /\ UNCHANGED <<notes, noteSeq>>
    /\ UNCHANGED <<prog, clock, ticks, users, userSeq, issued, signedUp, noteAuthor,
                   dbVars, memVars>>

\* time passes between requests
Elapse == {TTL - 1, TTL + 1}

Tick ==
    /\ prog = "auth"
    /\ ticks < MaxTicks
    /\ \E d \in Elapse : clock' = clock + d
    /\ ticks' = ticks + 1
    /\ resp' = NoResp
    /\ UNCHANGED <<prog, users, userSeq, notes, noteSeq, issued, signedUp, noteAuthor,
                   dbVars, memVars>>

----------------------------------------------------------------------------
(* The db program. Its handlers take no identity: Clients names who sends   *)
(* a request, which the code never sees.                                    *)
Clients == {"A", "B"}

DbZeroNote == [ID |-> 0, Title |-> "", Content |-> ""]

\* a body may carry an id of its own, or none (ID 0)
DbBodies ==
    {[ok |-> FALSE, val |-> DbZeroNote]}
      \cup {[ok |-> TRUE, val |-> [ID |-> i, Title |-> "t1", Content |-> "c1"]] :
              i \in 0..MaxNotes}
      \cup {[ok |-> TRUE, val |-> [ID |-> 0, Title |-> "t2", Content |-> "c2"]]}

\* the {id} of the path: a decimal id, or not a number
PathIds == {Sprint(i) : i \in 1..(MaxNotes + 1)} \cup {<<"x">>}

DbError(op, caller, pathId, msg, status) ==
    [op |-> op, caller |-> caller, pathId |-> pathId, status |-> status, msg |-> msg]

DbRowIds(table) == {n.id : n \in table}

DbScan(row) == [ID |-> row.id, Title |-> row.title, Content |-> row.content]

\* db.QueryRow("SELECT id, title, content FROM notes WHERE id = ?", id).Scan(...)
QueryNote(table, id) ==
    LET rows == {n \in table : n.id = id} IN
    IF rows = {} THEN [ErrNoRows |-> TRUE, note |-> DbZeroNote]
    ELSE [ErrNoRows |-> FALSE, note |-> DbScan(CHOOSE n \in rows : TRUE)]

\* the response of getNoteHandler for a path id, over a given table
GetNoteResponse(table, caller, pathId) ==
    LET id == Atoi(pathId) IN
    IF ~id.ok
    THEN DbError("get", caller, pathId, "Invalid note id", StatusBadRequest)
    ELSE LET q == QueryNote(table, id.val) IN
         IF q.ErrNoRows
         THEN DbError("get", caller, pathId, "Note not found", StatusNotFound)
         ELSE [op |-> "get", caller |-> caller, pathId |-> pathId, status |-> StatusOK,
               msg |-> "", note |-> q.note]

DbCreate ==
    /\ prog = "db"
    /\ \E caller \in Clients, body \in DbBodies :
          LET d  == Decode(body)
              id == dbSeq + 1
          IN  IF d.err
              THEN /\ dbResp' = DbError("create", caller, <<>>, "Invalid request payload",
                                        StatusBadRequest)
                   /\ UNCHANGED <<dbNotes, dbSeq, dbCreator, dbDeleted>>
              ELSE /\ Cardinality(dbNotes) < MaxNotes
                   /\ dbSeq <= MaxNotes
                   /\ dbNotes' = dbNotes \cup
                         {[id |-> id, title |-> d.val.Title, content |-> d.val.Content]}
                   /\ dbSeq' = id
                   /\ dbCreator' = (id :> caller) @@ dbCreator
                   /\ dbDeleted' = dbDeleted \ {id}
                   /\ dbResp' = [op |-> "create", caller |-> caller, pathId |-> <<>>,
                                 status |-> StatusOK, msg |-> "",
                                 note |-> [d.val EXCEPT !.ID = id]]
    /\ UNCHANGED <<prog, authVars, memVars>>

DbGetNotes ==
    /\ prog = "db"
    /\ \E caller \in Clients :
          dbResp' = [op |-> "list", caller |-> caller, pathId |-> <<>>,
                     status |-> StatusOK, msg |-> "",
                     notes |-> {DbScan(n) : n \in dbNotes}]
    /\ UNCHANGED <<prog, dbNotes, dbSeq, dbCreator, dbDeleted, authVars, memVars>>

DbGetNote ==
    /\ prog = "db"
    /\ \E caller \in Clients, pathId \in PathIds :
          dbResp' = GetNoteResponse(dbNotes, caller, pathId)
    /\ UNCHANGED <<prog, dbNotes, dbSeq, dbCreator, dbDeleted, authVars, memVars>>

\* db.Exec("DELETE FROM notes WHERE id=?", id): no error when no row matches
DeleteWhere(table, id) == {n \in table : n.id # id}

DbDelete ==
    /\ prog = "db"
    /\ \E caller \in Clients, pathId \in PathIds :
          LET id == Atoi(pathId) IN
          IF ~id.ok
          THEN /\ dbResp' = DbError("delete", caller, pathId, "Invalid note id",
                                    StatusBadRequest)
               /\ UNCHANGED <<dbNotes, dbDeleted>>
          ELSE /\ dbNotes' = DeleteWhere(dbNotes, id.val)
               /\ dbDeleted' = dbDeleted \cup {id.val}
               /\ dbResp' = [op |-> "delete", caller |-> caller, pathId |-> pathId,
                             status |-> StatusNoContent, msg |-> ""]
    /\ UNCHANGED <<prog, dbSeq, dbCreator, authVars, memVars>>

\* the id the UPDATE statement is given for its WHERE clause
UpdateKey(id, updatedData) == updatedData.ID

\* db.Exec("UPDATE notes SET title=?, content=? WHERE id=?", title, content, key)
UpdateWhere(table, key, title, content) ==
    {IF n.id = key THEN [n EXCEPT !.title = title, !.content = content] ELSE n :
        n \in table}

DbUpdate ==
    /\ prog = "db"
    /\ \E caller \in Clients, pathId \in PathIds, body \in DbBodies :
          LET id == Atoi(pathId)
              d  == Decode(body)
          IN  IF ~id.ok
              THEN /\ dbResp' = DbError("update", caller, pathId, "Invalid note id",
                                        StatusBadRequest)
                   /\ UNCHANGED dbNotes
              ELSE IF d.err
              THEN /\ dbResp' = DbError("update", caller, pathId,
                                        "Invalid request payload", StatusBadRequest)
                   /\ UNCHANGED dbNotes
              ELSE /\ dbNotes' = UpdateWhere(dbNotes, UpdateKey(id.val, d.val),
                                             d.val.Title, d.val.Content)
                   /\ dbResp' = [op |-> "update", caller |-> caller, pathId |-> pathId,
                                 status |-> StatusOK, msg |-> "",
                                 note |-> [d.val EXCEPT !.ID = id.val]]
    /\ UNCHANGED <<prog, dbSeq, dbCreator, dbDeleted, authVars, memVars>>

----------------------------------------------------------------------------
(* The mem program: one goroutine per request, the notes map under mu.      *)
Procs == 1..MaxProcs

\* rand.IntN(n): any of 0..n-1
RandIds == 0..(MaxRandId - 1)

\* var note Note; titles and contents are sequences of characters here
MemZeroNote == [ID |-> 0, Title |-> <<>>, Content |-> <<>>]

\* the client goroutine g serves sends its own text, or a body that is not JSON
MemBodies(g) ==
    {[ok |-> FALSE, val |-> MemZeroNote],
     [ok |-> TRUE, val |-> [ID |-> 0, Title |-> <<"t">> \o Sprint(g),
                            Content |-> <<"c">> \o Sprint(g)]]}

MemPathIds == {Sprint(i) : i \in RandIds} \cup {<<"x">>}

Locals(op, id, note) ==
    [op |-> op, id |-> id, note |-> note, exists |-> FALSE, list |-> {}]

MemError(op, pathId, msg, status) ==
    [op |-> op, pathId |-> pathId, status |-> status, msg |-> msg]

\* delete(notes, id)
MapDeleteNothing(m, id) == m

MapDelete(m, id) == [i \in DOMAIN m \ {id} |-> m[i]]

\* createNewNoteHandler up to mu.Lock()
MemCreateBegin ==
    /\ prog = "mem"
    /\ \E g \in Procs : \E body \in MemBodies(g) :
          /\ pc[g] = "idle"
          /\ LET d == Decode(body) IN
             IF d.err
             THEN /\ memResp' = [memResp EXCEPT ![g] =
                        MemError("create", <<>>, "Invalid request payload",
                                 StatusBadRequest)]
                  /\ UNCHANGED <<pc, local>>
             ELSE /\ pc' = [pc EXCEPT ![g] = "lock"]
                  /\ local' = [local EXCEPT ![g] = Locals("create", 0, d.val)]
                  /\ memResp' = [memResp EXCEPT ![g] = NoResp]
    /\ UNCHANGED <<prog, memNotes, mu, memDeleted, authVars, dbVars>>

\* getNotesHandler up to mu.Lock()
MemListBegin ==
    /\ prog = "mem"
    /\ \E g \in Procs :
          /\ pc[g] = "idle"
          /\ pc' = [pc EXCEPT ![g] = "lock"]
          /\ local' = [local EXCEPT ![g] = Locals("list", 0, MemZeroNote)]
          /\ memResp' = [memResp EXCEPT ![g] = NoResp]
    /\ UNCHANGED <<prog, memNotes, mu, memDeleted, authVars, dbVars>>

\* getNoteHandler and deleteNoteHandler up to mu.Lock()
MemByIdBegin(op) ==
    /\ prog = "mem"
    /\ \E g \in Procs, pathId \in MemPathIds :
          /\ pc[g] = "idle"
          /\ LET id == Atoi(pathId) IN
             IF ~id.ok
             THEN /\ memResp' = [memResp EXCEPT ![g] =
                        MemError(op, pathId, "Invalid note id", StatusBadRequest)]
                  /\ UNCHANGED <<pc, local>>
             ELSE /\ pc' = [pc EXCEPT ![g] = "lock"]
                  /\ local' = [local EXCEPT ![g] = Locals(op, id.val, MemZeroNote)]
                  /\ memResp' = [memResp EXCEPT ![g] = NoResp]
    /\ UNCHANGED <<prog, memNotes, mu, memDeleted, authVars, dbVars>>

MemGetBegin == MemByIdBegin("get")

MemDeleteBegin == MemByIdBegin("delete")

\* sync.Mutex: Lock blocks until the mutex is free and then takes it; a Lock
\* that did not block would let a second goroutine in
LockNoWait(g) == mu' = g

Lock(g) == mu = 0 /\ mu' = g

\* Unlock frees the mutex; a path that returns without it keeps the mutex
UnlockSkipped(g) == mu' = mu

Unlock(g) == mu' = 0

\* mu.Lock()
MemLock ==
    /\ prog = "mem"
    /\ \E g \in Procs :
          /\ pc[g] = "lock"
          /\ Lock(g)
          /\ pc' = [pc EXCEPT ![g] = "crit"]
    /\ UNCHANGED <<prog, memNotes, local, memResp, memDeleted, authVars, dbVars>>

\* note.ID = rand.IntN(100000); notes[note.ID] = note
MemCreateCrit ==
    /\ prog = "mem"
    /\ \E g \in Procs, id \in RandIds :
          /\ pc[g] = "crit" /\ local[g].op = "create"
          /\ LET note == [local[g].note EXCEPT !.ID = id] IN
             /\ local' = [local EXCEPT ![g].note = note, ![g].id = id]
             /\ memNotes' = (id :> note) @@ memNotes
          /\ memDeleted' = memDeleted \ {id}
          /\ pc' = [pc EXCEPT ![g] = "unlock"]
    /\ UNCHANGED <<prog, mu, memResp, authVars, dbVars>>

\* for _, n := range notes { notesList = append(notesList, n) }
MemListCrit ==
    /\ prog = "mem"
    /\ \E g \in Procs :
          /\ pc[g] = "crit" /\ local[g].op = "list"
          /\ local' = [local EXCEPT ![g].list = {memNotes[i] : i \in DOMAIN memNotes}]
          /\ pc' = [pc EXCEPT ![g] = "unlock"]
    /\ UNCHANGED <<prog, memNotes, mu, memResp, memDeleted, authVars, dbVars>>

\* note, exists := notes[id]
MemGetCrit ==
    /\ prog = "mem"
    /\ \E g \in Procs :
          /\ pc[g] = "crit" /\ local[g].op = "get"
          /\ LET id == local[g].id IN
             local' = [local EXCEPT
                          ![g].exists = id \in DOMAIN memNotes,
                          ![g].note = IF id \in DOMAIN memNotes THEN memNotes[id]
                                      ELSE MemZeroNote]
          /\ pc' = [pc EXCEPT ![g] = "unlock"]
    /\ UNCHANGED <<prog, memNotes, mu, memResp, memDeleted, authVars, dbVars>>

\* _, exists := notes[id]; if exists { delete(notes, id) }
MemDeleteCrit ==
    /\ prog = "mem"
    /\ \E g \in Procs :
          /\ pc[g] = "crit" /\ local[g].op = "delete"
          /\ LET id     == local[g].id
                 exists == id \in DOMAIN memNotes
             IN  /\ local' = [local EXCEPT ![g].exists = exists]
                 /\ memNotes' = IF exists THEN MapDelete(memNotes, id) ELSE memNotes
                 /\ memDeleted' = IF exists THEN memDeleted \cup {id} ELSE memDeleted
          /\ pc' = [pc EXCEPT ![g] = "unlock"]
    /\ UNCHANGED <<prog, mu, memResp, authVars, dbVars>>

\* mu.Unlock()
MemUnlock ==
    /\ prog = "mem"
    /\ \E g \in Procs :
          /\ pc[g] = "unlock"
          /\ Unlock(g)
          /\ pc' = [pc EXCEPT ![g] = "write"]
    /\ UNCHANGED <<prog, memNotes, local, memResp, memDeleted, authVars, dbVars>>

\* what each handler writes after mu.Unlock()
MemResponse(l) ==
    IF l.op = "create"
    THEN [op |-> "create", pathId |-> <<>>, status |-> StatusOK, msg |-> "",
          note |-> l.note]
    ELSE IF l.op = "list"
    THEN [op |-> "list", pathId |-> <<>>, status |-> StatusOK, msg |-> "",
          notes |-> l.list]
    ELSE IF ~l.exists
    THEN MemError(l.op, Sprint(l.id), "Note not found", StatusNotFound)
    ELSE IF l.op = "get"
    THEN [op |-> "get", pathId |-> Sprint(l.id), status |-> StatusOK, msg |-> "",
          note |-> l.note]
    ELSE [op |-> "delete", pathId |-> Sprint(l.id), status |-> StatusNoContent,
          msg |-> ""]

MemWrite ==
    /\ prog = "mem"
    /\ \E g \in Procs :
          /\ pc[g] = "write"
          /\ memResp' = [memResp EXCEPT ![g] = MemResponse(local[g])]
          /\ pc' = [pc EXCEPT ![g] = "idle"]
    /\ UNCHANGED <<prog, memNotes, mu, local, memDeleted, authVars, dbVars>>

----------------------------------------------------------------------------
InitAuth ==
    /\ clock = 0 /\ ticks = 0
    /\ users = {} /\ userSeq = 0
    /\ notes = {} /\ noteSeq = 0
    /\ issued = {} /\ signedUp = {} /\ noteAuthor = <<>>
    /\ resp = NoResp

InitDb ==
    /\ dbNotes = {} /\ dbSeq = 0
    /\ dbCreator = <<>> /\ dbDeleted = {}
    /\ dbResp = NoResp

InitMem ==
    /\ memNotes = <<>> /\ mu = 0
    /\ pc = [g \in Procs |-> "idle"]
    /\ local = [g \in Procs |-> Locals("none", 0, MemZeroNote)]
    /\ memResp = [g \in Procs |-> NoResp]
    /\ memDeleted = {}

Init ==
    /\ prog \in {"auth", "db", "mem"}
    /\ InitAuth /\ InitDb /\ InitMem

Next ==
    \/ Signup
    \/ Login
    \/ PostNotes
    \/ GetNotes
    \/ Tick
    \/ DbCreate
    \/ DbGetNotes
    \/ DbGetNote
    \/ DbDelete
    \/ DbUpdate
    \/ MemCreateBegin
    \/ MemListBegin
    \/ MemGetBegin
    \/ MemDeleteBegin
    \/ MemLock
    \/ MemCreateCrit
    \/ MemListCrit
    \/ MemGetCrit
    \/ MemDeleteCrit
    \/ MemUnlock
    \/ MemWrite

Spec == Init /\ [][Next]_vars

----------------------------------------------------------------------------
(* The in-memory program under the scheduling Go gives it: the runtime     *)
(* keeps running every goroutine that can take a step, and sync.Mutex,     *)
(* which hands the mutex to a goroutine that has waited too long           *)
(* (starvation mode), lets no waiter be passed over for ever. Requests need *)
(* not arrive, so the Begin steps are under no fairness.                    *)
MemInit == Init /\ prog = "mem"

MemNext ==
    \/ MemCreateBegin
    \/ MemListBegin
    \/ MemGetBegin
    \/ MemDeleteBegin
    \/ MemLock
    \/ MemCreateCrit
    \/ MemListCrit
    \/ MemGetCrit
    \/ MemDeleteCrit
    \/ MemUnlock
    \/ MemWrite

\* goroutine g takes the step it is at, past mu.Lock()
Runs(g) ==
    /\ pc[g] \in {"crit", "unlock", "write"}
    /\ (MemCreateCrit \/ MemListCrit \/ MemGetCrit \/ MemDeleteCrit \/ MemUnlock
          \/ MemWrite)
    /\ pc'[g] # pc[g]

\* goroutine g returns from mu.Lock()
Acquires(g) == pc[g] = "lock" /\ MemLock /\ pc'[g] = "crit"

Fairness == \A g \in Procs : WF_vars(Runs(g)) /\ SF_vars(Acquires(g))

FairSpec == MemInit /\ [][MemNext]_vars /\ Fairness

----------------------------------------------------------------------------
(* Properties of the auth program                                           *)

Protected == {"createNote", "getNotes"}

\* the token of the protected request just served
Tok(rsp) == rsp.req.header.Authorization

\* tok is a token login gave out and the clock has not passed its expiry
Authorized(tok, held, now) == tok \in held /\ now <= tok.exp

SignedWith(tok, key) == tok.form = "jwt" /\ tok.sig = HMAC("HS256", tok.uid, tok.exp, key)

\* C1: a protected handler runs only for a request carrying an unexpired
\* token that login issued; any other request (no Authorization value, a
\* malformed, unsigned, wrongly signed, edited or expired token) is answered
\* 401 without the handler running and with the users and notes tables as
\* they were.
C1_AuthGate ==
    [][resp'.op \in Protected =>
          /\ resp'.ran => Authorized(Tok(resp'), issued, clock)
          /\ ~Authorized(Tok(resp'), issued, clock) =>
                /\ resp'.status = StatusUnauthorized
                /\ ~resp'.ran
                /\ notes' = notes /\ noteSeq' = noteSeq
                /\ users' = users /\ userSeq' = userSeq]_vars

C1_Witness ==
    /\ resp.op = "createNote"
    /\ resp.status = StatusUnauthorized /\ ~resp.ran
    /\ Tok(resp) \in issued /\ clock > Tok(resp).exp
    /\ users # {}

\* C2: a login naming the username and password of a successful signup
\* answers 200 with a token that authMiddleware lets through, and the userId
\* it sets is the id that signup gave the user; every token held is let
\* through as long as the clock has not passed its expiry.
C2_SignupThenLogin ==
    LET Gate(tok) ==
            authMiddleware([header |-> [Authorization |-> tok, userId |-> <<>>],
                            body |-> NoBody])
    IN  /\ resp.op = "login" =>
            \A s \in signedUp :
                (s.username = Decode(resp.req).val.Username
                    /\ s.password = Decode(resp.req).val.Password)
                => /\ resp.status = StatusOK
                   /\ Gate(resp.token).next
                   /\ Gate(resp.token).r.header.userId = Sprint(s.id)
        /\ \A tok \in issued :
              clock <= tok.exp =>
                 /\ Gate(tok).next
                 /\ \E s \in signedUp : Gate(tok).r.header.userId = Sprint(s.id)

C2_Witness ==
    /\ resp.op = "login" /\ resp.status = StatusOK
    /\ Decode(resp.req).val.Username = "bob"
    /\ resp.token.uid = 2
    /\ \E s \in signedUp : s.username = "bob" /\ s.id = 2

\* C3 (as claimed): a signup naming a username already in the users table,
\* with a password bcrypt accepts, fails with an outcome that is not the one
\* given for a failed INSERT, and the users table is as it was.
C3_DuplicateIsConflict ==
    [][(/\ resp'.op = "signup"
        /\ UserByName(Decode(resp'.req).val.Username) # {}
        /\ Len(Decode(resp'.req).val.Password) <= MaxPasswordBytes)
       => /\ resp'.status >= StatusBadRequest
          /\ [status |-> resp'.status, msg |-> resp'.msg] # InsertUserError
          /\ users' = users]_vars

\* C5: getNotesHandler, reached with a token of user U, returns the rows of
\* exactly the notes created with a token of U, as stored.
C5_OwnerScopedList ==
    (resp.op = "getNotes" /\ resp.ran) =>
        LET U == Tok(resp).uid IN
        /\ {n.ID : n \in resp.notes} = {i \in DOMAIN noteAuthor : noteAuthor[i] = U}
        /\ resp.notes = {ScanNote(n) : n \in {m \in notes : noteAuthor[m.id] = U}}
        /\ \A n \in resp.notes : n.UserID = U

C5_Witness ==
    /\ resp.op = "getNotes" /\ resp.ran
    /\ Cardinality(resp.notes) = 1
    /\ \E i \in DOMAIN noteAuthor : noteAuthor[i] # Tok(resp).uid

\* C7: a token login issues expires TTL after the login; a protected request
\* carrying it is served at any time before that and answered 401 at any
\* time after it.
C7_Expiry ==
    /\ (resp.op = "login" /\ resp.status = StatusOK) => resp.token.exp = clock + TTL
    /\ (resp.op \in Protected /\ Tok(resp) \in issued) =>
          /\ clock < Tok(resp).exp => (resp.ran /\ resp.status < StatusBadRequest)
          /\ clock > Tok(resp).exp => (~resp.ran /\ resp.status = StatusUnauthorized)

C7_Witness ==
    /\ resp.op = "getNotes"
    /\ Tok(resp) \in issued
    /\ clock = Tok(resp).exp + 1
    /\ SignedWith(Tok(resp), jwtKey)
    /\ resp.status = StatusUnauthorized

\* C8: a token signed with a key other than jwtKey is answered 401 whatever
\* user id and expiry it carries; the handler does not run and no table
\* changes.
C8_OtherKeyRejected ==
    [][(resp'.op \in Protected /\ SignedWith(Tok(resp'), OtherKey))
       => /\ resp'.status = StatusUnauthorized
          /\ ~resp'.ran
          /\ notes' = notes /\ users' = users]_vars

C8_Witness ==
    /\ resp.op = "createNote"
    /\ SignedWith(Tok(resp), OtherKey)
    /\ Tok(resp).exp > clock
    /\ \E u \in users : u.id = Tok(resp).uid
    /\ resp.status = StatusUnauthorized

----------------------------------------------------------------------------
(* Properties of the db program                                             *)

\* C4 (as claimed): a get, update or delete of a note by a client other than
\* the one that created it is answered 404 Not Found, as for an id that does
\* not exist.
C4_OtherOwnerNotFound ==
    (/\ dbResp.op \in {"get", "update", "delete"}
     /\ Atoi(dbResp.pathId).ok
     /\ Atoi(dbResp.pathId).val \in DOMAIN dbCreator
     /\ dbCreator[Atoi(dbResp.pathId).val] # dbResp.caller)
    => dbResp.status = StatusNotFound

\* C9 (as claimed): once updateNoteHandler has answered 200 for the path id
\* of a stored note, with a body of title t and content c, a get of that id
\* returns the note with that id, t and c, and every other note is as it was.
C9_UpdateThenGet ==
    [][(/\ dbResp'.op = "update"
        /\ dbResp'.status = StatusOK
        /\ Atoi(dbResp'.pathId).val \in DbRowIds(dbNotes))
       => LET i   == Atoi(dbResp'.pathId).val
              get == GetNoteResponse(dbNotes', dbResp'.caller, dbResp'.pathId)
          IN  /\ get.status = StatusOK
              /\ get.note = [ID |-> i, Title |-> dbResp'.note.Title,
                             Content |-> dbResp'.note.Content]
              /\ {n \in dbNotes' : n.id # i} = {n \in dbNotes : n.id # i}]_vars

----------------------------------------------------------------------------
(* Properties of the note stores                                            *)

\* goroutine g leaves its critical section in this step
LeavesCrit(g) == pc[g] = "crit" /\ pc'[g] = "unlock"

\* C6 (as claimed): every create, in-memory or database-backed, assigns an id
\* that no note already in the store holds, so n creates store n notes.
C6_CreateAssignsFreshId ==
    [][/\ \A g \in Procs :
             (LeavesCrit(g) /\ local[g].op = "create")
             => /\ local'[g].id \notin DOMAIN memNotes
                /\ Cardinality(DOMAIN memNotes') = Cardinality(DOMAIN memNotes) + 1
       /\ (dbResp'.op = "create" /\ dbResp'.status = StatusOK /\ dbNotes' # dbNotes)
             => /\ dbResp'.note.ID \notin DbRowIds(dbNotes)
                /\ Cardinality(dbNotes') = Cardinality(dbNotes) + 1]_vars

\* C10: once a delete of id i has removed the note (in-memory: answered 204;
\* database: the DELETE ran) and no create has been given id i since, every
\* get of i reads no note and is answered 404, and every list is without i.
C10_DeleteThenGet ==
    [][/\ \A g \in Procs :
             /\ (LeavesCrit(g) /\ local[g].op = "get" /\ local[g].id \in memDeleted)
                   => ~local'[g].exists
             /\ (LeavesCrit(g) /\ local[g].op = "list")
                   => \A n \in local'[g].list : n.ID \notin memDeleted
             /\ (pc[g] = "write" /\ pc'[g] = "idle" /\ local[g].op = "get")
                   => /\ local[g].exists <=> memResp'[g].status = StatusOK
                      /\ ~local[g].exists <=> memResp'[g].status = StatusNotFound
             /\ (pc[g] = "write" /\ pc'[g] = "idle" /\ local[g].op = "list")
                   => memResp'[g].notes = local[g].list
       /\ (dbResp'.op = "get" /\ Atoi(dbResp'.pathId).ok
                /\ Atoi(dbResp'.pathId).val \in dbDeleted')
             => dbResp'.status = StatusNotFound
       /\ dbResp'.op = "list"
             => \A n \in dbResp'.notes : n.ID \notin dbDeleted']_vars

C10_Witness ==
    \E g, h \in Procs :
        /\ memResp[g].op = "get" /\ memResp[g].status = StatusNotFound
        /\ memResp[h].op = "delete" /\ memResp[h].status = StatusNoContent
        /\ memResp[h].pathId = memResp[g].pathId
        /\ Atoi(memResp[g].pathId).val \in memDeleted
        /\ memNotes # <<>>

\* C11 (as claimed): a note a create has stored stays in the store, with its
\* id, title and content, until a delete of that id (in the database store:
\* a delete or an update); no other step removes or replaces it.
C11_CreatedNoteStays ==
    [][/\ \A i \in DOMAIN memNotes :
             \/ \E g \in Procs :
                   LeavesCrit(g) /\ local[g].op = "delete" /\ local[g].id = i
             \/ (i \in DOMAIN memNotes' /\ memNotes'[i] = memNotes[i])
       /\ \A n \in dbNotes :
             n \in dbNotes' \/ dbResp'.op \in {"delete", "update"}]_vars

\* C12 (as claimed): a delete of an id the store does not hold is answered
\* 404 Not Found and changes nothing; 204 is answered only when the note was
\* there and has been removed. In-memory and database-backed.
C12_DeleteMissingIsNotFound ==
    [][/\ \A g \in Procs :
             (pc[g] = "write" /\ pc'[g] = "idle" /\ local[g].op = "delete")
             => (memResp'[g].status = StatusNoContent <=> local[g].exists)
       /\ \A g \in Procs :
             (LeavesCrit(g) /\ local[g].op = "delete" /\ local[g].id \notin DOMAIN memNotes)
             => (~local'[g].exists /\ memNotes' = memNotes)
       /\ (dbResp'.op = "delete" /\ Atoi(dbResp'.pathId).ok
              /\ Atoi(dbResp'.pathId).val \notin DbRowIds(dbNotes))
             => (dbResp'.status = StatusNotFound /\ dbNotes' = dbNotes)]_vars

\* C13 (as claimed): two failing logins answered one after the other over the
\* same users table, whatever the reason each failed for (unknown username,
\* wrong password), get the same status and the same message.
C13_LoginFailuresAlike ==
    [][(/\ resp.op = "login" /\ resp.status # StatusOK
        /\ resp'.op = "login" /\ resp'.status # StatusOK)
       => (resp'.status = resp.status /\ resp'.msg = resp.msg)]_vars

\* C14 (as claimed): a signup or a note create whose body cannot be decoded
\* is answered 400 and leaves the users table and the note store as they
\* were; in the in-memory store a create refused as undecodable changes no
\* note.
C14_UndecodableHasNoEffect ==
    [][/\ (resp'.op = "signup" /\ ~resp'.req.ok)
             => (resp'.status = StatusBadRequest /\ users' = users /\ notes' = notes)
       /\ (resp'.op = "createNote" /\ resp'.ran /\ ~resp'.req.body.ok)
             => (resp'.status = StatusBadRequest /\ users' = users /\ notes' = notes)
       /\ \A g \in Procs :
             (memResp'[g] # memResp[g] /\ memResp'[g].op = "create"
                 /\ memResp'[g].status = StatusBadRequest)
             => memNotes' = memNotes]_vars

\* C15: the users table never holds two records with the same username, and
\* of all the signups made with one username at most one has succeeded. The
\* only access signupHandler makes to shared state is its single INSERT, which
\* SQLite runs atomically, so the interleavings of concurrent signups are the
\* orders of their INSERTs.
C15_OneUserPerUsername ==
    /\ \A u1, u2 \in users : u1.username = u2.username => u1 = u2
    /\ \A s1, s2 \in signedUp : s1.username = s2.username => s1 = s2
    /\ \A u1, u2 \in users : u1.id = u2.id => u1 = u2

\* a second signup with a taken username and another password was refused
C15_Witness ==
    /\ resp.op = "signup"
    /\ resp.status = InsertUserError.status
    /\ resp.msg = InsertUserError.msg
    /\ \E s \in signedUp :
          s.username = resp.req.val.Username /\ s.password # resp.req.val.Password
    /\ Cardinality(users) = MaxUsers

\* the goroutines that are between mu.Lock() and mu.Unlock()
InSection == {g \in Procs : pc[g] \in {"crit", "unlock"}}

\* C16: in the in-memory store a goroutine is between Lock and Unlock only
\* as the holder of mu, at most one goroutine is there at a time, the notes
\* map changes, and what a handler has read from it is set, only in a step
\* of the holder inside its section, and a goroutine that is decoding its
\* request or writing its response does not hold mu.
C16_MapUnderMutex ==
    [][/\ \A g \in InSection' : mu' = g
       /\ Cardinality(InSection') <= 1
       /\ memNotes' # memNotes => \E g \in Procs : mu = g /\ LeavesCrit(g)
       /\ \A g \in Procs :
             (local'[g].exists # local[g].exists \/ local'[g].list # local[g].list)
             => (pc[g] = "idle" \/ (mu = g /\ LeavesCrit(g)))
       /\ \A g \in Procs : pc'[g] \in {"idle", "lock", "write"} => mu' # g
       /\ \A g \in Procs : memResp'[g] # memResp[g] => (mu # g /\ mu' # g)]_vars

\* one goroutine is writing the map while another waits at mu.Lock()
C16_Witness ==
    \E g, h \in Procs :
       /\ g # h
       /\ mu = g /\ pc[g] = "unlock" /\ local[g].op = "create"
       /\ local[g].id \in DOMAIN memNotes
       /\ pc[h] = "lock" /\ local[h].op = "delete"

----------------------------------------------------------------------------
(* Further properties of the auth program                                   *)

\* C17: every stored note's user_id is an integer that is the id of a record
\* of the users table; no note is stored with an empty, absent or
\* unregistered owner.
C17_NoteOwnerExists ==
    \A n \in notes :
       /\ "int" \in DOMAIN n.user_id
       /\ n.user_id.int # 0
       /\ \E u \in users : u.id = n.user_id.int

\* a note was stored for the token's user although the body named a user id
\* that is not registered
C17_Witness ==
    /\ resp.op = "createNote" /\ resp.ran /\ resp.req.body.ok
    /\ ~ \E u \in users : u.id = resp.req.body.val.UserID
    /\ \E n \in notes : n.id = noteSeq /\ n.user_id = [int |-> Tok(resp).uid]

\* C18: every record of the users table holds, as password_hash, the bcrypt
\* digest of the password its signup gave, which is never that password
\* itself; a signup whose password bcrypt refuses is answered 500 and stores
\* no record.
C18_OnlyDigestStored ==
    [][/\ \A u \in users' :
             \E s \in signedUp' :
                /\ s.id = u.id /\ s.username = u.username
                /\ u.password_hash.digest = Digest(u.password_hash.salt, s.password)
                /\ u.password_hash.digest # s.password
       /\ (resp'.op = "signup" /\ Len(resp'.req.val.Password) > MaxPasswordBytes)
             => /\ resp'.status = StatusInternalServerError
                /\ resp'.msg = "Error hashing password"
                /\ users' = users /\ userSeq' = userSeq]_vars

\* a record with a digest is stored and a signup that could not be hashed
\* was refused
C18_Witness ==
    /\ users # {}
    /\ resp.op = "signup"
    /\ Len(resp.req.val.Password) > MaxPasswordBytes
    /\ resp.status = StatusInternalServerError
    /\ UserByName(resp.req.val.Username) = {}

\* C19: the user id a protected handler acts on is the one of the verified
\* token, whatever userId header the client sent: the note created is stored
\* for the token's user, and the notes listed are those of the token's user.
C19_IdentityFromToken ==
    (resp.op \in Protected /\ resp.ran) =>
        LET U == Tok(resp).uid IN
        /\ resp.userId = Sprint(U)
        /\ resp.op = "createNote" =>
              \E n \in notes : n.id = noteSeq /\ n.user_id = [int |-> U]
        /\ resp.op = "getNotes" =>
              resp.notes = {ScanNote(n) : n \in {m \in notes : m.user_id = [int |-> U]}}

\* the client sent a userId header naming another user than its token's
C19_Witness ==
    /\ resp.op = "createNote" /\ resp.ran
    /\ resp.req.header.userId # <<>>
    /\ resp.req.header.userId # Sprint(Tok(resp).uid)
    /\ \E u \in users : Sprint(u.id) = resp.req.header.userId
    /\ \E n \in notes : n.id = noteSeq /\ n.user_id = [int |-> Tok(resp).uid]

----------------------------------------------------------------------------
(* Further properties of the in-memory program                              *)

\* C20: a goroutine that is writing its response or has returned does not
\* hold mu, on the not-found paths as on the others; under fair scheduling
\* every handler that has started returns, and mu, once held, becomes free.
C20_HandlersFinish ==
    /\ [](\A g \in Procs : pc[g] \in {"write", "idle"} => mu # g)
    /\ \A g \in Procs : []<>(pc[g] = "idle")
    /\ []<>(mu = 0)

\* a delete that found nothing has released mu and is about to answer 404
\* while another goroutine holds mu
C20_Witness ==
    \E g, h \in Procs :
       /\ g # h
       /\ pc[g] = "write" /\ local[g].op = "delete" /\ ~local[g].exists
       /\ mu = h /\ pc[h] = "crit"

====
